---- MODULE Spec2Model ----
(***************************************************************************)
(* Model of the donor registry of app.py: the in-memory collection         *)
(* DONOR_DATA, the backing file donors.json, and the request handlers      *)
(* search_donors, create_donor and update_status.                          *)
(*                                                                         *)
(* Strings are sequences of one-character strings, so that strip, upper,   *)
(* capitalize and the substring test are computed, not assumed.            *)
(***************************************************************************)
EXTENDS Integers, Sequences, FiniteSets, TLC

VARIABLES donors, file, thr, faults, lastReq, lastResp, repeat

vars == <<donors, file, thr, faults, lastReq, lastResp, repeat>>

(***************************************************************************)
(* Bounds                                                                  *)
(***************************************************************************)
\* create requests are accepted while the collection is shorter than this
MaxDonors == 2

\* writes to the backing file that fail in one run
MaxFaults == 1

(***************************************************************************)
(* Python values                                                           *)
(***************************************************************************)
\* None, in the type of strings: its one element is not a character
None == <<"<None>">>

Whitespace == {" "}

\* str.upper() on one character
UpperChar(c) ==
    CASE c = "a" -> "A" [] c = "b" -> "B" [] c = "e" -> "E" [] c = "i" -> "I"
      [] c = "j" -> "J" [] c = "l" -> "L" [] c = "n" -> "N" [] c = "o" -> "O"
      [] c = "p" -> "P" [] c = "u" -> "U" [] c = "v" -> "V"
      [] OTHER -> c

\* str.lower() on one character
LowerChar(c) ==
    CASE c = "A" -> "a" [] c = "B" -> "b" [] c = "E" -> "e" [] c = "I" -> "i"
      [] c = "J" -> "j" [] c = "L" -> "l" [] c = "N" -> "n" [] c = "O" -> "o"
      [] c = "P" -> "p" [] c = "U" -> "u" [] c = "V" -> "v"
      [] OTHER -> c

\* str.upper()
Upper(s) == [i \in 1..Len(s) |-> UpperChar(s[i])]

\* str.capitalize(): first character upper-cased, the rest lower-cased
Capitalize(s) ==
    [i \in 1..Len(s) |-> IF i = 1 THEN UpperChar(s[i]) ELSE LowerChar(s[i])]

\* str.strip(): drops leading and trailing whitespace
Strip(s) ==
    LET keep == {i \in 1..Len(s) : s[i] \notin Whitespace}
    IN  IF keep = {} THEN <<>>
        ELSE LET lo == CHOOSE i \in keep : \A j \in keep : i <= j
                 hi == CHOOSE i \in keep : \A j \in keep : j <= i
             IN  SubSeq(s, lo, hi)

\* `sub in s` on strings
Contains(s, sub) ==
    \E i \in 1..(Len(s) - Len(sub) + 1) : SubSeq(s, i, i + Len(sub) - 1) = sub

\* truth value of an optional string: None and "" are falsy
Truthy(x) == x # None /\ x # <<>>

\* `x or y` on optional strings
Or(x, y) == IF Truthy(x) THEN x ELSE y

\* str(n) of a non-negative int
RECURSIVE IntToStr(_)
IntToStr(n) ==
    LET digit(k) == <<"0", "1", "2", "3", "4", "5", "6", "7", "8", "9">>[k + 1]
    IN  IF n < 10 THEN <<digit(n)>> ELSE IntToStr(n \div 10) \o <<digit(n % 10)>>

\* a JSON id as a client sends it: absent, an int, or a string
NoId == [t |-> "none", n |-> 0, s |-> <<>>]
IntId(n) == [t |-> "int", n |-> n, s |-> <<>>]
StrId(s) == [t |-> "str", n |-> 0, s |-> s]

\* truth value of an id: None, 0 and "" are falsy
TruthyId(x) ==
    CASE x.t = "none" -> FALSE
      [] x.t = "int" -> x.n # 0
      [] OTHER -> x.s # <<>>

\* str(x) of an id
Str(x) ==
    CASE x.t = "none" -> <<"N", "o", "n", "e">>
      [] x.t = "int" -> IntToStr(x.n)
      [] OTHER -> x.s

(***************************************************************************)
(* Program constants                                                       *)
(***************************************************************************)
AVAILABLE_KEY == <<"A", "V", "A", "I", "L", "A", "B", "L", "E">>

sAvailable == <<"A", "v", "a", "i", "l", "a", "b", "l", "e">>
sUnavailable == <<"U", "n", "a", "v", "a", "i", "l", "a", "b", "l", "e">>

required == <<"Name", "Phone_Number", "Blood_Group">>

(***************************************************************************)
(* The backing file                                                        *)
(***************************************************************************)
\* what json.dump writes: the whole collection, no byte-order mark
json_dump(data) == [state |-> "json", bom |-> FALSE, doc |-> data]

\* open(file_path, 'w') succeeded and the write did not complete
Truncated == [state |-> "truncated", bom |-> FALSE, doc |-> <<>>]

NoFile == [state |-> "missing", bom |-> FALSE, doc |-> <<>>]

\* load_donor_data: a missing or malformed file gives the empty collection,
\* a byte-order mark is skipped
load_donor_data(f) == IF f.state = "json" THEN f.doc ELSE <<>>

\* outcomes of a write: it completes, open() raises, or a later write raises
Faults == {"none", "open", "write"}

\* the outcomes the environment can still produce
Possible(fault) == fault = "none" \/ faults < MaxFaults

Count(fault) == IF fault = "none" THEN faults ELSE faults + 1

\* save_donor_data with the file opened in append mode
save_donor_data_append(data, f, fault) ==
    CASE fault = "open" -> f
      [] fault = "none" /\ f.state = "missing" -> json_dump(data)
      [] OTHER -> [state |-> "malformed", bom |-> FALSE, doc |-> <<>>]

\* save_donor_data: the file after the call
save_donor_data(data, f, fault) ==
    CASE fault = "none" -> json_dump(data)
      [] fault = "open" -> f
      [] OTHER -> Truncated

\* next_id as a count of the records
next_id_len(ds) == Len(ds) + 1

\* next_id: max of the ids, 0 for the empty collection, plus one
next_id(ds) ==
    LET ids == {ds[i].id : i \in 1..Len(ds)}
    IN  (IF ids = {} THEN 0 ELSE CHOOSE m \in ids : \A k \in ids : k <= m) + 1

(***************************************************************************)
(* Requests and responses                                                  *)
(***************************************************************************)
NoData ==
    [Name |-> None, Phone_Number |-> None, Blood_Group |-> None,
     Availability_Status |-> None, Address |-> None, City |-> None]

NoReq ==
    [op |-> "none", data |-> NoData, id |-> NoId, new_status |-> None,
     blood_group |-> None, name |-> None, fault |-> "none"]

\* a response: the status code, the fields "Missing fields:" names, the
\* created record (at most one), the search result
Resp(code, missing, donor, results) ==
    [code |-> code, missing |-> missing, donor |-> donor, results |-> results]

NoResp == Resp(0, <<>>, <<>>, <<>>)

\* the request just served and its response; repeat tells that the request
\* is the one served right before it
Observe(req, resp) ==
    /\ lastReq' = req
    /\ lastResp' = resp
    /\ repeat' = (req = lastReq)

CreateReq(data, fault) ==
    [NoReq EXCEPT !.op = "create", !.data = data, !.fault = fault]

UpdateReq(id, new_status, fault) ==
    [NoReq EXCEPT !.op = "update", !.id = id, !.new_status = new_status,
                  !.fault = fault]

SearchReq(blood_group_input, name_input) ==
    [NoReq EXCEPT !.op = "search", !.blood_group = blood_group_input,
                  !.name = name_input]

(***************************************************************************)
(* create_donor                                                            *)
(***************************************************************************)
\* the required fields the request lacks
Missing(data) ==
    LET lacks(f) == ~Truthy(data[f]) IN SelectSeq(required, lacks)

\* the record create_donor builds
NewDonor(data, ds) ==
    [id |-> next_id(ds),
     Name |-> Strip(data.Name),
     Phone_Number |-> Strip(data.Phone_Number),
     Blood_Group |-> Upper(Strip(data.Blood_Group)),
     Availability_Status |->
         Capitalize(Strip(Or(data.Availability_Status, sAvailable))),
     Address |-> Strip(Or(data.Address, Or(data.City, <<>>)))]

\* the response once save_donor_data was called: an exception it raises
\* is not caught, and the framework answers 500
create_response(donor, fault) ==
    IF fault = "none" THEN Resp(201, <<>>, <<donor>>, <<>>)
    ELSE Resp(500, <<>>, <<>>, <<>>)

\* the whole handler, run without interruption
create_donor(data) ==
    /\ IF Missing(data) # <<>>
       THEN /\ Observe(CreateReq(data, "none"),
                       Resp(400, Missing(data), <<>>, <<>>))
            /\ UNCHANGED <<donors, file, faults>>
       ELSE \E fault \in Faults :
            LET donor == NewDonor(data, donors)
            IN  /\ Len(donors) < MaxDonors
                /\ Possible(fault)
                /\ donors' = Append(donors, donor)
                /\ file' = save_donor_data(donors', file, fault)
                /\ faults' = Count(fault)
                /\ Observe(CreateReq(data, fault), create_response(donor, fault))
    /\ UNCHANGED thr

(***************************************************************************)
(* update_status                                                           *)
(***************************************************************************)
\* the positions whose id equals the supplied one, compared as strings
Matches(ds, id) == {i \in 1..Len(ds) : IntToStr(ds[i].id) = Str(id)}

\* the loop stops at the first match
FirstMatch(ds, id) == CHOOSE i \in Matches(ds, id) : \A j \in Matches(ds, id) : i <= j

\* the updated record added instead of changed in place
SetStatus_append(ds, i, new_status) ==
    Append(ds, [ds[i] EXCEPT !.Availability_Status = Capitalize(Strip(new_status))])

\* the assignment made for every record, the id test lost
SetStatus_all(ds, i, new_status) ==
    [k \in 1..Len(ds) |->
        [ds[k] EXCEPT !.Availability_Status = Capitalize(Strip(new_status))]]

SetStatus(ds, i, new_status) ==
    [ds EXCEPT ![i].Availability_Status = Capitalize(Strip(new_status))]

\* update_status with the exception swallowed
update_response_swallow(fault) == Resp(200, <<>>, <<>>, <<>>)

\* the response once save_donor_data was called: the except clause turns
\* an exception into 500
update_response(fault) ==
    IF fault = "none" THEN Resp(200, <<>>, <<>>, <<>>)
    ELSE Resp(500, <<>>, <<>>, <<>>)

update_status(id, new_status) ==
    /\ IF ~TruthyId(id) \/ ~Truthy(new_status)
       THEN /\ Observe(UpdateReq(id, new_status, "none"),
                       Resp(400, <<>>, <<>>, <<>>))
            /\ UNCHANGED <<donors, file, faults>>
       ELSE IF Matches(donors, id) = {}
       THEN /\ Observe(UpdateReq(id, new_status, "none"),
                       Resp(404, <<>>, <<>>, <<>>))
            /\ UNCHANGED <<donors, file, faults>>
       ELSE \E fault \in Faults :
            /\ Possible(fault)
            /\ donors' = SetStatus(donors, FirstMatch(donors, id), new_status)
            /\ file' = save_donor_data(donors', file, fault)
            /\ faults' = Count(fault)
            /\ Observe(UpdateReq(id, new_status, fault), update_response(fault))
    /\ UNCHANGED thr

(***************************************************************************)
(* search_donors                                                           *)
(***************************************************************************)
\* the loop body: does the record reach results.append
Kept(donor, bg_key, name_key) ==
    LET donor_blood == Upper(Strip(Or(donor.Blood_Group, <<>>)))
        donor_name == Upper(Strip(Or(donor.Name, <<>>)))
        avail == Upper(Strip(Or(donor.Availability_Status, sUnavailable)))
    IN  /\ bg_key # <<>> => (donor_blood = bg_key /\ avail = AVAILABLE_KEY)
        /\ name_key # <<>> => Contains(donor_name, name_key)

\* the list the handler returns
SearchResult(ds, blood_group_input, name_input) ==
    IF ~Truthy(blood_group_input) /\ ~Truthy(name_input)
    THEN ds
    ELSE LET bg_key == Upper(Strip(Or(blood_group_input, <<>>)))
             name_key == Upper(Strip(Or(name_input, <<>>)))
             keep(d) == Kept(d, bg_key, name_key)
         IN  SelectSeq(ds, keep)

search_donors(blood_group_input, name_input) ==
    /\ Observe(SearchReq(blood_group_input, name_input),
               Resp(200, <<>>, <<>>,
                    SearchResult(donors, blood_group_input, name_input)))
    /\ UNCHANGED <<donors, file, thr, faults>>

(***************************************************************************)
(* create_donor, statement by statement, for requests served by            *)
(* concurrent threads of the development server                            *)
(***************************************************************************)
Threads == {"t1", "t2"}

Idle == [pc |-> "idle", data |-> NoData, donor |-> <<>>]

\* records built by a thread and not yet appended
InFlight == Cardinality({t \in Threads : thr[t].pc = "built"})

\* lines 127-147: validation, next_id() and the record
create_begin(t, data) ==
    /\ thr[t].pc = "idle"
    /\ IF Missing(data) # <<>>
       THEN /\ Observe(CreateReq(data, "none"),
                       Resp(400, Missing(data), <<>>, <<>>))
            /\ UNCHANGED thr
       ELSE /\ Len(donors) + InFlight < MaxDonors
            /\ thr' = [thr EXCEPT ![t] = [pc |-> "built", data |-> data,
                                          donor |-> <<NewDonor(data, donors)>>]]
            /\ UNCHANGED <<lastReq, lastResp, repeat>>
    /\ UNCHANGED <<donors, file, faults>>

\* line 149
create_append(t) ==
    /\ thr[t].pc = "built"
    /\ donors' = Append(donors, thr[t].donor[1])
    /\ thr' = [thr EXCEPT ![t].pc = "appended"]
    /\ UNCHANGED <<file, faults, lastReq, lastResp, repeat>>

\* lines 150-152
create_save(t, fault) ==
    /\ thr[t].pc = "appended"
    /\ Possible(fault)
    /\ file' = save_donor_data(donors, file, fault)
    /\ faults' = Count(fault)
    /\ Observe(CreateReq(thr[t].data, fault),
               create_response(thr[t].donor[1], fault))
    /\ thr' = [thr EXCEPT ![t] = Idle]
    /\ UNCHANGED donors

(***************************************************************************)
(* Inputs                                                                  *)
(***************************************************************************)
sAnn == <<"A", "n", "n">>
sJoann == <<"J", "o", "a", "n", "n">>
sBlank == <<" ">>
sPune == <<"P", "u", "n", "e">>
sOne == <<"1">>
sTwo == <<"2">>

\* request bodies of POST /api/donors
CreateRequests ==
    { [NoData EXCEPT !.Name = <<" ", "A", "n", "n">>, !.Phone_Number = sTwo,
                     !.Blood_Group = <<" ", "a", "+">>,
                     !.Availability_Status = <<"u", "n", "a", "v", "a", "i", "l", "a", "b", "l", "e">>,
                     !.Address = <<"X">>, !.City = sPune],
      [NoData EXCEPT !.Name = sBlank, !.Phone_Number = sOne,
                     !.Blood_Group = <<"o", "+">>, !.City = sPune],
      [NoData EXCEPT !.Name = sAnn, !.Blood_Group = <<"o", "+">>],
      [NoData EXCEPT !.Phone_Number = <<>>] }

\* ids and statuses of POST /api/donors/update_status
UpdateIds == {NoId, IntId(0), StrId(sTwo), IntId(5)}

UpdateStatuses ==
    {None, <<"a", "v", "a", "i", "l", "a", "b", "l", "e">>,
     <<" ", "U", "N", "A", "V", "A", "I", "L", "A", "B", "L", "E", " ">>}

\* query parameters of GET /api/donors/search
BloodGroupFilters == {None, <<" ", "o", "+", " ">>, sBlank}

NameFilters == {None, <<" ", "A", "N">>, sBlank}

\* donors.json at start-up: absent, not JSON, or a hand-edited document
\* with a byte-order mark
SeedA ==
    << [id |-> 1, Name |-> sJoann, Phone_Number |-> sOne,
        Blood_Group |-> <<"o", "+">>,
        Availability_Status |-> <<"a", "v", "a", "i", "l", "a", "b", "l", "e">>,
        Address |-> sPune] >>

SeedB ==
    << [id |-> 5, Name |-> sAnn, Phone_Number |-> sTwo,
        Blood_Group |-> <<"O", "+">>, Availability_Status |-> None,
        Address |-> None] >>

InitialFiles ==
    { NoFile,
      [state |-> "malformed", bom |-> FALSE, doc |-> <<>>],
      [state |-> "json", bom |-> TRUE, doc |-> SeedA],
      [state |-> "json", bom |-> FALSE, doc |-> SeedB] }

(***************************************************************************)
(* Specifications                                                          *)
(***************************************************************************)
Init ==
    /\ file \in InitialFiles
    /\ donors = load_donor_data(file)
    /\ thr = [t \in Threads |-> Idle]
    /\ faults = 0
    /\ lastReq = NoReq
    /\ lastResp = NoResp
    /\ repeat = FALSE

\* requests served one at a time
Next ==
    \/ \E data \in CreateRequests : create_donor(data)
    \/ \E id \in UpdateIds, new_status \in UpdateStatuses :
           update_status(id, new_status)
    \/ \E blood_group \in BloodGroupFilters, name \in NameFilters :
           search_donors(blood_group, name)

Spec == Init /\ [][Next]_vars

\* create requests of several threads interleaved
NextConc ==
    \/ \E t \in Threads, data \in CreateRequests : create_begin(t, data)
    \/ \E t \in Threads : create_append(t)
    \/ \E t \in Threads, fault \in Faults : create_save(t, fault)
    \/ \E id \in UpdateIds, new_status \in UpdateStatuses :
           update_status(id, new_status)

SpecConc == Init /\ [][NextConc]_vars

TypeOK ==
    /\ Len(donors) <= MaxDonors
    /\ file.state \in {"missing", "malformed", "json", "truncated"}
(***************************************************************************)
(* Properties                                                              *)
(***************************************************************************)
Ids(ds) == {ds[i].id : i \in 1..Len(ds)}

Created == lastReq.op = "create" /\ lastResp.code = 201

Updated == lastReq.op = "update" /\ lastResp.code = 200

\* C1: with requests served one at a time, a successful create gives the
\* new record an id greater than the id of every record there before it:
\* the largest id plus one, or 1 for the empty collection.
C1_IdsIncrease ==
    [][(lastReq'.op = "create" /\ lastResp'.code = 201) =>
         LET d == lastResp'.donor[1]
         IN  /\ donors' = Append(donors, d)
             /\ \A k \in Ids(donors) : d.id > k
             /\ IF donors = <<>> THEN d.id = 1
                ELSE \E k \in Ids(donors) : d.id = k + 1]_vars

C1_Witness ==
    /\ Created
    /\ Len(donors) = 2
    /\ donors[1].id = 5
    /\ lastResp.donor[1].id = 6

\* C2: no two records of the collection share an id, also when the create
\* requests of concurrent threads interleave.
C2_UniqueIds ==
    \A i, j \in 1..Len(donors) : i # j => donors[i].id # donors[j].id

\* C3: when a create or a status update reports success, the backing file
\* holds the in-memory collection.
C3_FlushedOnSuccess ==
    (Created \/ Updated) => (file.state = "json" /\ file.doc = donors)

C3_Witness ==
    /\ Updated
    /\ faults = 1
    /\ Len(donors) = 2
    /\ file = json_dump(donors)

\* the mutation of the request of this step is in the collection
MutationKept ==
    IF lastReq'.op = "create"
    THEN /\ Len(donors') = Len(donors) + 1
         /\ SubSeq(donors', 1, Len(donors)) = donors
         /\ donors'[Len(donors')].Name = Strip(lastReq'.data.Name)
    ELSE /\ Len(donors') = Len(donors)
         /\ \E i \in 1..Len(donors) :
                /\ IntToStr(donors[i].id) = Str(lastReq'.id)
                /\ donors'[i].Availability_Status =
                       Capitalize(Strip(lastReq'.new_status))

WriteFails == lastReq'.op \in {"create", "update"} /\ lastReq'.fault # "none"

\* C4, as claimed: when the write fails the operation reports an error, the
\* collection keeps the mutation and the backing file keeps its previous
\* content.
C4_FileKept ==
    [][WriteFails =>
         (lastResp'.code = 500 /\ MutationKept /\ file' = file)]_vars

\* C4, amended: when the write fails the operation reports an error and the
\* collection keeps the mutation; the backing file keeps its previous
\* content when it could not be opened, and is left truncated when the
\* write failed after it was opened for writing.
C4_WriteFailure ==
    [][WriteFails =>
         /\ lastResp'.code = 500
         /\ MutationKept
         /\ lastReq'.fault = "open" => file' = file
         /\ lastReq'.fault = "write" => file' = Truncated]_vars

C4_Witness ==
    /\ lastReq.op = "update"
    /\ lastReq.fault = "write"
    /\ lastResp.code = 500
    /\ file = Truncated
    /\ \E i \in 1..Len(donors) : donors[i].Availability_Status = sUnavailable

\* C5: an update whose supplied id matches no record, with a supplied
\* new_status, returns not-found and leaves collection and file unchanged.
C5_NotFound ==
    [][(/\ lastReq'.op = "update"
        /\ lastReq'.id # NoId
        /\ lastReq'.new_status # None
        /\ \A i \in 1..Len(donors) : IntToStr(donors[i].id) # Str(lastReq'.id))
       => (lastResp'.code = 404 /\ donors' = donors /\ file' = file)]_vars

\* the required fields that are absent or empty after trimming
Blank(data) ==
    LET blank(f) == data[f] = None \/ Strip(data[f]) = <<>>
    IN  SelectSeq(required, blank)

\* C6: a create request with a required field absent or empty after
\* trimming fails with a validation error naming every such field and leaves
\* collection and file unchanged.
C6_Validation ==
    [][(lastReq'.op = "create" /\ Blank(lastReq'.data) # <<>>) =>
         /\ lastResp'.code = 400
         /\ lastResp'.missing = Blank(lastReq'.data)
         /\ donors' = donors
         /\ file' = file]_vars

\* C7: the same status update applied twice in a row leaves the collection
\* and the backing file as the first application left them.
C7_Idempotent ==
    [][(repeat' /\ lastReq'.op = "update" /\ lastReq'.fault = "none") =>
         (donors' = donors /\ file' = file)]_vars

C7_Witness ==
    /\ repeat
    /\ Updated
    /\ \E i \in 1..Len(donors) :
           /\ IntToStr(donors[i].id) = Str(lastReq.id)
           /\ donors[i].Availability_Status = Capitalize(Strip(lastReq.new_status))

\* normalised fields of a stored record
NormBlood(d) == IF d.Blood_Group = None THEN <<>> ELSE Upper(Strip(d.Blood_Group))

IsAvailable(d) ==
    d.Availability_Status # None /\ Upper(Strip(d.Availability_Status)) = AVAILABLE_KEY

InResults(d) == \E k \in 1..Len(lastResp.results) : lastResp.results[k] = d

\* C8: a search with a blood-group filter returns only available records of
\* that group, trimmed and upper-cased on both sides, and every such record
\* that also passes the name filter.
C8_PublicSearch ==
    (lastReq.op = "search" /\ lastReq.blood_group # None) =>
        LET key == Upper(Strip(lastReq.blood_group))
            named(d) == lastReq.name # None =>
                            Contains(Upper(Strip(d.Name)), Upper(Strip(lastReq.name)))
        IN  /\ \A k \in 1..Len(lastResp.results) :
                   /\ NormBlood(lastResp.results[k]) = key
                   /\ IsAvailable(lastResp.results[k])
            /\ \A i \in 1..Len(donors) :
                   (NormBlood(donors[i]) = key /\ IsAvailable(donors[i])
                    /\ named(donors[i])) => InResults(donors[i])

\* C9: search returns, in collection order, exactly the records that pass
\* every supplied filter: the name filter as a case-insensitive substring
\* of Name, the blood-group filter as in C8, both joined by AND; with no
\* filter the whole collection.
C9_SearchFilters ==
    lastReq.op = "search" =>
        LET passes(d) ==
                /\ lastReq.blood_group # None =>
                       /\ NormBlood(d) = Upper(Strip(lastReq.blood_group))
                       /\ IsAvailable(d)
                /\ lastReq.name # None =>
                       Contains(Upper(d.Name), Upper(lastReq.name))
        IN  lastResp.results = SelectSeq(donors, passes)

\* C10: a successful status update changes the Availability_Status of the
\* record whose id matches and nothing else; no step removes a record or
\* changes the id of one.
C10_Frame ==
    [][/\ Len(donors') >= Len(donors)
       /\ \A i \in 1..Len(donors) : donors'[i].id = donors[i].id
       /\ (lastReq'.op = "update" /\ lastResp'.code = 200) =>
              /\ Len(donors') = Len(donors)
              /\ \E i \in 1..Len(donors) :
                     /\ IntToStr(donors[i].id) = Str(lastReq'.id)
                     /\ \A j \in 1..Len(donors) : j # i => donors'[j] = donors[j]
                     /\ donors'[i] =
                            [donors[i] EXCEPT !.Availability_Status =
                                 donors'[i].Availability_Status]]_vars

C10_Witness ==
    /\ Updated
    /\ ~repeat
    /\ Len(donors) = 2
    /\ donors[1].Availability_Status = sAvailable
    /\ donors[2].Availability_Status = sUnavailable
====
